---- MODULE Spec2Model ----
(***************************************************************************)
(* SIR epidemic simulation over generated contact networks.                *)
(*                                                                         *)
(*   simulateSIR   (src/unnamed/part_000)  synchronous discrete-time SIR   *)
(*                                         with per-node resistance        *)
(*   gillespieSIR  (src/src/app/page.tsx)  continuous-time event engine    *)
(*                                                                         *)
(* Numbers.  Probabilities are exact fractions: a draw of rand() is        *)
(* a/RDen, exp(-x) is ExpNeg(x)/PDen, and every comparison the code makes  *)
(* between them is done by cross-multiplication.  Resistance is counted in *)
(* units of 1/ONE; the Float32Array that stores it keeps only multiples of *)
(* FQ (Fround), while the arithmetic on it is done on the finer grid, as   *)
(* the code does double arithmetic on float32 contents.  Rates are small   *)
(* integers and their sums are exact; the clock is a fixed-point number.   *)
(* The random stream of mulberry32 is a nondeterministic choice of each    *)
(* value drawn.                                                            *)
(***************************************************************************)
EXTENDS Integers, Sequences, FiniteSets, TLC

VARIABLES
    engine,      \* which function runs: "simulateSIR" or "gillespieSIR"
    args,        \* the arguments of the call
    adj,         \* adjacency lists built from args.graph
    pc,          \* position in the function: "seed", "loop", "done"
    picked,      \* the Set of seeded node ids
    states,      \* Uint8Array states
    resistance,  \* Float32Array resistance (simulateSIR)
    timeline,    \* snapshots pushed so far
    t,           \* simulateSIR: the loop counter t
    times,       \* gillespieSIR: times pushed so far
    clock,       \* gillespieSIR: let t
    ev,          \* gillespieSIR: the loop counter ev
    exit,        \* gillespieSIR: why the loop was left
    ws,          \* the locals of a call of makeWS
    ba,          \* the locals of a call of makeBA
    cl,          \* the locals of a call of makeClustered
    ui,          \* handleSimulate: the controls it reads and the graph it builds
    calls        \* concurrent calls of simulateSIR, each with its own locals

\* the locals of the engines
simvars == <<engine, args, adj, pc, picked, states, resistance, timeline, t,
             times, clock, ev, exit>>

\* the locals of the generators and of their callers
genvars == <<ws, ba, cl, ui, calls>>

vars == <<simvars, genvars>>

-----------------------------------------------------------------------------
(* Bounds of the model *)

MaxN == 3
MaxSteps == 2
MaxEvents == 2
\* makeWS: the largest n and k of a call that rewires nothing
MaxWSN == 5
MaxK == 4
\* makeWS: the largest n of a call that rewires
MaxRewN == 4
\* makeBA: the largest n and m of a call
MaxBAN == 6
MaxM == 3
\* makeClustered: the largest n and c of a call
MaxCLN == 4
MaxC == 2
\* handleSimulate: the largest value of the steps control
MaxUISteps == 3
\* concurrent calls: the largest seed, and the steps of a simulateSIR call
MaxSeed == 2
MaxCallSteps == 2

(* Scales of the number model *)

\* rand() returns a / RDen (the code: a 32-bit integer / 4294967296)
RDen == 4
\* Math.exp(-x) is kept in units of 1 / PDen
PDen == 8
\* the resistance 1, in units of the double arithmetic done on resistances
ONE == 16
\* the spacing of the values the Float32Array can hold, in the same units
FQ == 4
\* U() returns u / UDen; 1 / UDen stands for the 1e-12 of the clamp
UDen == 8
\* the clock counts in units of 1 / (100 * TDen)
TDen == 10
\* the double Infinity (the default tMax)
Infinity == 1000000

Min(a, b) == IF a < b THEN a ELSE b
Max(a, b) == IF a > b THEN a ELSE b

RECURSIVE Pow(_, _)
Pow(b, e) == IF e = 0 THEN 1 ELSE b * Pow(b, e - 1)

Ids(n) == 0 .. (n - 1)

\* Array.from({ length: n }, (_, i) => ({ id: i, state: 0, resistance: 0 }))
NodesOf(n) == [i \in 1 .. n |-> [id |-> i - 1, state |-> 0, resistance |-> 0]]

\* the values rand() returns, as numerators over RDen: 0 <= rand() < 1
Draws == 0 .. (RDen - 1)

\* Math.floor(rand() * n)
FloorMul(a, n) == (a * n) \div RDen

-----------------------------------------------------------------------------
(* Graphs handed to the engines *)

\* makeWS, ring lattice: node i is linked to (i + d) % n for d = 1..k/2
RingLattice_zero(n, k) ==
    LET half == (IF k % 2 # 0 THEN k + 1 ELSE k) \div 2
    IN  [idx \in 1 .. (n * half) |->
            LET i == (idx - 1) \div half
                d == (idx - 1) % half
            IN  [source |-> i, target |-> (i + d) % n]]
RingLattice(n, k) ==
    LET half == (IF k % 2 # 0 THEN k + 1 ELSE k) \div 2
    IN  [idx \in 1 .. (n * half) |->
            LET i == (idx - 1) \div half
                d == ((idx - 1) % half) + 1
            IN  [source |-> i, target |-> (i + d) % n]]

\* makeWS, rewiring of one link: links[idx].target = j
Rewire_push(links, idx, j) == Append(links, [source |-> links[idx].source, target |-> j])
Rewire(links, idx, j) == [links EXCEPT ![idx].target = j]

KSet == {2, 4}

\* a Graph: its nodes and links, and n = graph.nodes.length
Graph(n, links) == [nodes |-> NodesOf(n), n |-> n, links |-> links]

\* the graphs of the runs: a ring lattice, or one whose last link was rewired to node 1
Graphs ==
    { Graph(n, RingLattice(n, k)) : n \in 1 .. MaxN, k \in KSet }
    \cup
    { Graph(n, Rewire(RingLattice(n, 2), n, 1)) : n \in 2 .. MaxN }

\* the pushes of `for (const e of graph.links) { adj[u].push(v); adj[v].push(u) }`
\* in the order they are made, each as <<list, value>>
Pushes(links) ==
    [q \in 1 .. (2 * Len(links)) |->
        LET e == links[(q + 1) \div 2]
        IN  IF q % 2 = 1 THEN <<e.source, e.target>> ELSE <<e.target, e.source>>]

\* adj: list u holds the values pushed to it, in order
buildAdjacency(graph) ==
    [u \in Ids(graph.n) |->
        LET mine == SelectSeq(Pushes(graph.links), LAMBDA x : x[1] = u)
        IN  [q \in 1 .. Len(mine) |-> mine[q][2]]]

\* the array whose entries the neighbour loop of the discrete step reads
NeighbourSource_scratch(st, scratch) == scratch
NeighbourSource(st, scratch) == st

\* let m = 0; for (k ...) if (states[neigh[k]] === 1) m++
InfectedNeighbours_once(a, st, u) ==
    Cardinality({ a[u][k] : k \in { x \in 1 .. Len(a[u]) : st[a[u][x]] = 1 } })
InfectedNeighbours(a, st, u) ==
    Cardinality({ k \in 1 .. Len(a[u]) : st[a[u][k]] = 1 })

-----------------------------------------------------------------------------
(* Per-step probabilities of simulateSIR *)

\* Math.exp(-x) in units of 1/PDen, rounded to the grid
ExpNeg(x) ==
    CASE x <= -1 -> 22
      [] x = 0  -> 8
      [] x = 1  -> 3
      [] x = 2  -> 1
      [] OTHER  -> 0

\* pRec = 1 - Math.exp(-gamma), numerator over PDen
pRec(gamma) == PDen - ExpNeg(gamma)

\* rand() < pRec
DrawBelowRec(a, gamma) == a * PDen < RDen * pRec(gamma)

\* baseInf = 1 - Math.pow(1 - pEdgeInf, m); scaledInf = baseInf * (1 - resistance[u]);
\* rand() < scaledInf
DrawBelowInf_orEqual(a, beta, m, res) ==
    LET q == Pow(ExpNeg(beta), m)
        d == Pow(PDen, m)
    IN  a * d * ONE <= RDen * (d - q) * (ONE - res)
DrawBelowInf(a, beta, m, res) ==
    LET q == Pow(ExpNeg(beta), m)   \* (1 - pEdgeInf)^m over PDen^m
        d == Pow(PDen, m)
    IN  a * d * ONE < RDen * (d - q) * (ONE - res)

\* a store into the Float32Array: the nearest multiple of FQ, ties to even
Fround(x) ==
    LET lo == (x \div FQ) * FQ
        r  == x - lo
    IN  IF 2 * r < FQ THEN lo
        ELSE IF 2 * r > FQ THEN lo + FQ
        ELSE IF (lo \div FQ) % 2 = 0 THEN lo ELSE lo + FQ

\* const newRes = Math.min(1, resistance[u] + gain)
NewRes(res, gain) == Min(ONE, res + gain)

\* if (newRes >= 1) scratch[u] = 2 else scratch[u] = 0
AfterRecovery_early(newRes) == IF newRes > 0 THEN 2 ELSE 0
AfterRecovery_three(newRes) == IF newRes >= ONE THEN 2 ELSE 3
AfterRecovery(newRes) == IF newRes >= ONE THEN 2 ELSE 0

\* else if (s === 2) scratch[u] = 2
KeepRecovered_reset(s) == 0
KeepRecovered(s) == 2

\* the body of `for (let u = 0; u < n; u++)` for one u; w = [scratch, resistance],
\* r is the value of rand() if the body calls it
StepNode(u, st, w, r, a, beta, gamma, gain) ==
    LET s == st[u] IN
    IF s = 0 THEN
        LET m == InfectedNeighbours(a, NeighbourSource(st, w.scratch), u) IN
        IF m > 0 /\ DrawBelowInf(r, beta, m, w.resistance[u])
        THEN [w EXCEPT !.scratch[u] = 1]
        ELSE w
    ELSE IF s = 1 THEN
        IF DrawBelowRec(r, gamma)
        THEN LET newRes == NewRes(w.resistance[u], gain)
             IN  [scratch |-> [w.scratch EXCEPT ![u] = AfterRecovery(newRes)],
                  resistance |-> [w.resistance EXCEPT ![u] = Fround(newRes)]]
        ELSE w
    ELSE IF s = 2 THEN [w EXCEPT !.scratch[u] = KeepRecovered(s)]
    ELSE w

\* the loop over u, from the set W of possible [scratch, resistance]: every value
\* of each rand() gives one result (an empty W stays empty).  The nodes u .. n-1
\* are taken in order, the range being split in halves to keep the evaluation shallow.
RECURSIVE StepNodes(_, _, _, _, _, _, _, _)
StepNodes(u, n, st, W, a, beta, gamma, gain) ==
    IF W = {} \/ u >= n THEN W
    ELSE IF n - u = 1
    THEN { StepNode(u, st, w, r, a, beta, gamma, gain) : w \in W, r \in Draws }
    ELSE LET mid == u + ((n - u) \div 2)
         IN  StepNodes(mid, n, st,
                       StepNodes(u, mid, st, W, a, beta, gamma, gain),
                       a, beta, gamma, gain)

-----------------------------------------------------------------------------
(* The arguments of the runs *)

Rates == {-1, 0, 1, 3}
Gains == {0, 4, ONE - 1, ONE + 1}

ArgsSIR ==
    [graph : Graphs, steps : 0 .. MaxSteps, beta : Rates, gamma : Rates,
     initialInfected : 0 .. (MaxN + 1), gain : Gains]

\* no generator call is in progress
GenIdle ==
    /\ ws = [pc |-> "idle"]
    /\ ba = [pc |-> "idle"]
    /\ cl = [pc |-> "idle"]
    /\ ui = [pc |-> "idle"]
    /\ calls = <<>>

InitCommon ==
    /\ GenIdle
    /\ adj = buildAdjacency(args.graph)
    /\ pc = "seed"
    /\ picked = {}
    /\ states = [u \in Ids(args.graph.n) |-> 0]
    /\ timeline = <<>>

InitSIR ==
    /\ engine = "simulateSIR"
    /\ args \in ArgsSIR
    /\ InitCommon
    /\ resistance = [u \in Ids(args.graph.n) |-> 0]
    /\ t = 1
    /\ times = <<>>
    /\ clock = 0
    /\ ev = 0
    /\ exit = "none"

-----------------------------------------------------------------------------
(* Seeding, the same code in both engines *)

\* const target = Math.min(initialInfected, n)
SeedTarget(initialInfected, n) == Min(initialInfected, n)

\* the guard of the seeding loop: picked.size < target
SeedMore_inclusive(size, target) == size <= target
SeedMore(size, target) == size < target

\* while (picked.size < target) picked.add(Math.floor(rand() * n))
SeedPick ==
    /\ pc = "seed"
    /\ SeedMore(Cardinality(picked), SeedTarget(args.initialInfected, args.graph.n))
    /\ \E a \in Draws : picked' = picked \cup {FloorMul(a, args.graph.n)}
    /\ UNCHANGED <<engine, args, adj, pc, states, resistance, timeline, t,
                   times, clock, ev, exit>>
    /\ UNCHANGED genvars

\* for (const j of picked) states[j] = 1; timeline = [states.slice()]; times = [0]
SeedDone_nodes ==
    /\ pc = "seed"
    /\ ~ SeedMore(Cardinality(picked), SeedTarget(args.initialInfected, args.graph.n))
    /\ states' = [u \in Ids(args.graph.n) |-> IF u \in picked THEN 1 ELSE states[u]]
    /\ args' = [args EXCEPT !.graph.nodes =
                    [i \in DOMAIN @ |-> IF (i - 1) \in picked
                                        THEN [@[i] EXCEPT !.state = 1] ELSE @[i]]]
    /\ timeline' = <<states'>>
    /\ times' = IF engine = "gillespieSIR" THEN <<0>> ELSE times
    /\ pc' = "loop"
    /\ UNCHANGED <<engine, adj, picked, resistance, t, clock, ev, exit>>
    /\ UNCHANGED genvars
SeedDone ==
    /\ pc = "seed"
    /\ ~ SeedMore(Cardinality(picked), SeedTarget(args.initialInfected, args.graph.n))
    /\ states' = [u \in Ids(args.graph.n) |-> IF u \in picked THEN 1 ELSE states[u]]
    /\ timeline' = <<states'>>
    /\ times' = IF engine = "gillespieSIR" THEN <<0>> ELSE times
    /\ pc' = "loop"
    /\ UNCHANGED <<engine, args, adj, picked, resistance, t, clock, ev, exit>>
    /\ UNCHANGED genvars

-----------------------------------------------------------------------------
(* simulateSIR *)

\* the guard of `for (let t = 1; t <= steps; t++)`
StepCond_exclusive(i, steps) == i < steps
StepCond(i, steps) == i <= steps

\* one pass of the loop over t
Step ==
    /\ engine = "simulateSIR"
    /\ pc = "loop"
    /\ StepCond(t, args.steps)
    /\ \E w \in StepNodes(0, args.graph.n, states,
                          {[scratch |-> states, resistance |-> resistance]},
                          adj, args.beta, args.gamma, args.gain) :
         /\ states' = w.scratch
         /\ resistance' = w.resistance
         /\ timeline' = Append(timeline, w.scratch)
    /\ t' = t + 1
    /\ UNCHANGED <<engine, args, adj, pc, picked, times, clock, ev, exit>>
    /\ UNCHANGED genvars

\* return timeline
Return ==
    /\ engine = "simulateSIR"
    /\ pc = "loop"
    /\ ~ StepCond(t, args.steps)
    /\ pc' = "done"
    /\ UNCHANGED <<engine, args, adj, picked, states, resistance, timeline, t,
                   times, clock, ev, exit>>
    /\ UNCHANGED genvars

NextSIR == SeedPick \/ SeedDone \/ Step \/ Return

SpecSIR == InitSIR /\ [][NextSIR]_vars

-----------------------------------------------------------------------------
(* gillespieSIR *)

\* const U = () => Math.max(1e-12, Math.min(1 - 1e-12, rng())), numerator over UDen
U_unclamped(a) == a * (UDen \div RDen)
U(a) == Max(1, Min(UDen - 1, a * (UDen \div RDen)))

\* -Math.log(x) for x = u/UDen, in hundredths
NegLog(u) ==
    CASE u <= 0 -> Infinity
      [] u = 1 -> 208
      [] u = 2 -> 139
      [] u = 3 -> 98
      [] u = 4 -> 69
      [] u = 5 -> 47
      [] u = 6 -> 29
      [] u = 7 -> 13
      [] OTHER -> 0

\* x / y for x > 0 and y >= 0, on the grid of the clock
FDiv(x, y) == IF x >= Infinity \/ y = 0 THEN Infinity ELSE (x * TDen) \div y

\* t += dt
Advance(c, dt) == IF c >= Infinity \/ dt >= Infinity THEN Infinity ELSE c + dt

\* the rate of node u: beta * m for a susceptible node with m > 0 infected
\* neighbours, gamma for an infected node
Rate(u, st, a, beta, gamma) ==
    IF st[u] = 0
    THEN LET m == InfectedNeighbours(a, st, u) IN IF m > 0 THEN beta * m ELSE 0
    ELSE IF st[u] = 1 THEN gamma
    ELSE 0

\* whether pass 2 looks at node u at all
Active_infected(u, st, a) == st[u] = 1
Active(u, st, a) ==
    \/ st[u] = 0 /\ InfectedNeighbours(a, st, u) > 0
    \/ st[u] = 1

\* pass 1: total rate
RECURSIVE SumRates(_, _, _, _, _, _)
SumRates(u, n, st, a, beta, gamma) ==
    IF u >= n THEN 0
    ELSE Rate(u, st, a, beta, gamma) + SumRates(u + 1, n, st, a, beta, gamma)

Rtot(st, a, arg) == SumRates(0, arg.graph.n, st, a, arg.beta, arg.gamma)

\* if (cum + r >= thresh), with thresh = U() * Rtot = u2 * rt / UDen
Crosses_strict(cum, r, u2, rt) == (cum + r) * UDen > u2 * rt
Crosses(cum, r, u2, rt) == (cum + r) * UDen >= u2 * rt

\* pass 2: the node that fires, or -1 when the scan falls through
RECURSIVE Select(_, _, _, _, _, _, _, _, _)
Select(u, n, cum, st, a, beta, gamma, u2, rt) ==
    IF u >= n THEN -1
    ELSE IF ~ Active(u, st, a) THEN Select(u + 1, n, cum, st, a, beta, gamma, u2, rt)
    ELSE LET r == Rate(u, st, a, beta, gamma) IN
         IF Crosses(cum, r, u2, rt) THEN u
         ELSE Select(u + 1, n, cum + r, st, a, beta, gamma, u2, rt)

\* states[u] = 1 (infection) or states[u] = 2 (recovery)
Fire_back(st, u) == [st EXCEPT ![u] = IF st[u] = 0 THEN 1 ELSE 0]
Fire_all(st, u) == [v \in DOMAIN st |-> IF st[v] = st[u] THEN st[u] + 1 ELSE st[v]]
Fire(st, u) == [st EXCEPT ![u] = IF st[u] = 0 THEN 1 ELSE 2]

TMaxSet == {150, Infinity}

ArgsGillespie ==
    [graph : Graphs, beta : Rates, gamma : Rates,
     initialInfected : 0 .. (MaxN + 1), maxEvents : 0 .. MaxEvents, tMax : TMaxSet]

InitGillespie ==
    /\ engine = "gillespieSIR"
    /\ args \in ArgsGillespie
    /\ InitCommon
    /\ resistance = [u \in Ids(args.graph.n) |-> 0]
    /\ t = 0
    /\ times = <<>>
    /\ clock = 0
    /\ ev = 0
    /\ exit = "none"

\* the guard of `for (let ev = 0; ev < maxEvents; ev++)`
EventCond_inclusive(i, maxEvents) == i <= maxEvents
EventCond(i, maxEvents) == i < maxEvents

InLoop ==
    /\ engine = "gillespieSIR"
    /\ pc = "loop"
    /\ EventCond(ev, args.maxEvents)

\* Rtot <= 0
IsAbsorbing_strict(rt) == rt < 0
IsAbsorbing(rt) == rt <= 0

\* if (Rtot <= 0) break
Absorbing ==
    /\ InLoop
    /\ IsAbsorbing(Rtot(states, adj, args))
    /\ pc' = "done"
    /\ exit' = "absorbing"
    /\ UNCHANGED <<engine, args, adj, picked, states, resistance, timeline, t,
                   times, clock, ev>>
    /\ UNCHANGED genvars

\* if (t > tMax)
PastHorizon_swapped(c, tMax) == tMax > c
PastHorizon(c, tMax) == c > tMax

\* t += dt; if (t > tMax) break
Horizon ==
    /\ InLoop
    /\ LET rt == Rtot(states, adj, args) IN
       /\ ~ IsAbsorbing(rt)
       /\ \E a1 \in Draws :
            LET c == Advance(clock, FDiv(NegLog(U(a1)), rt)) IN
            /\ PastHorizon(c, args.tMax)
            /\ clock' = c
    /\ pc' = "done"
    /\ exit' = "horizon"
    /\ UNCHANGED <<engine, args, adj, picked, states, resistance, timeline, t,
                   times, ev>>
    /\ UNCHANGED genvars

\* the rest of the loop body: select the event, apply it, record it
Event ==
    /\ InLoop
    /\ LET rt == Rtot(states, adj, args) IN
       /\ ~ IsAbsorbing(rt)
       /\ \E a1 \in Draws, a2 \in Draws :
            LET c == Advance(clock, FDiv(NegLog(U(a1)), rt))
                u == Select(0, args.graph.n, 0, states, adj, args.beta, args.gamma,
                            U(a2), rt)
            IN
            /\ ~ PastHorizon(c, args.tMax)
            /\ clock' = c
            /\ IF u = -1
               THEN /\ pc' = "done"
                    /\ exit' = "fallthrough"
                    /\ UNCHANGED <<states, timeline, times, ev>>
               ELSE /\ states' = Fire(states, u)
                    /\ timeline' = Append(timeline, states')
                    /\ times' = Append(times, c)
                    /\ ev' = ev + 1
                    /\ UNCHANGED <<pc, exit>>
    /\ UNCHANGED <<engine, args, adj, picked, resistance, t>>
    /\ UNCHANGED genvars

\* ev reached maxEvents: return { times, timeline }
Cap ==
    /\ engine = "gillespieSIR"
    /\ pc = "loop"
    /\ ~ EventCond(ev, args.maxEvents)
    /\ pc' = "done"
    /\ exit' = "maxEvents"
    /\ UNCHANGED <<engine, args, adj, picked, states, resistance, timeline, t,
                   times, clock, ev>>
    /\ UNCHANGED genvars

NextGillespie == SeedPick \/ SeedDone \/ Absorbing \/ Horizon \/ Event \/ Cap

SpecGillespie == InitGillespie /\ [][NextGillespie]_vars

-----------------------------------------------------------------------------
(* gillespieSIR run to its end, with maxEvents = Infinity among the caps *)

EventCaps == {1, Infinity}

\* rates that keep the run short
SlowRates == {0, 1}

\* the ring lattices of degree 2
Rings == { Graph(n, RingLattice(n, 2)) : n \in 1 .. MaxN }

\* a finite horizon on the smaller graphs only
ArgsUncapped ==
    { a \in [graph : Rings, beta : SlowRates, gamma : SlowRates,
             initialInfected : {0, 1, MaxN + 1}, maxEvents : EventCaps, tMax : TMaxSet] :
        a.tMax = Infinity \/ a.graph.n < MaxN }

InitUncapped ==
    /\ engine = "gillespieSIR"
    /\ args \in ArgsUncapped
    /\ InitCommon
    /\ resistance = [u \in Ids(args.graph.n) |-> 0]
    /\ t = 0
    /\ times = <<>>
    /\ clock = 0
    /\ ev = 0
    /\ exit = "none"

\* the function is synchronous: a call that has begun takes its next step
SpecUncapped == InitUncapped /\ [][NextGillespie]_vars /\ WF_vars(NextGillespie)

-----------------------------------------------------------------------------
(* Seeding alone, for both engines *)

InitSeed == InitSIR \/ InitGillespie

NextSeed == SeedPick \/ SeedDone

SpecSeed == InitSeed /\ [][NextSeed]_vars

-----------------------------------------------------------------------------
(* makeWS *)

\* no engine call is in progress
SimIdle ==
    /\ engine = "none"
    /\ args = [graph |-> Graph(0, <<>>)]
    /\ adj = <<>>
    /\ pc = "idle"
    /\ picked = {}
    /\ states = <<>>
    /\ resistance = <<>>
    /\ timeline = <<>>
    /\ t = 0
    /\ times = <<>>
    /\ clock = 0
    /\ ev = 0
    /\ exit = "none"

\* a probability argument, as the fraction num / den
Prob(num, den) == [num |-> num, den |-> den]

\* rand() < p
DrawBelow(a, p) == a * p.den < p.num * RDen

\* tries++ < 50
MaxTries == 50

\* if (k % 2 !== 0) k += 1
EvenUp(k) == IF k % 2 # 0 THEN k + 1 ELSE k

\* hasEdge(L, a, b): some link of L joins a and b, in either direction
hasEdge_directed(L, a, b) ==
    \E e \in 1 .. Len(L) : L[e].source = a /\ L[e].target = b
hasEdge(L, a, b) ==
    \E e \in 1 .. Len(L) :
        \/ L[e].source = a /\ L[e].target = b
        \/ L[e].source = b /\ L[e].target = a

\* the locals of makeWS(n, k, rewireProb) when its rewiring loop begins
WSStart(n, k, p) ==
    [arg |-> [n |-> n, k |-> k, rewireProb |-> p],
     n |-> n, k |-> EvenUp(k),
     nodes |-> NodesOf(n),
     links |-> RingLattice(n, k),
     idx |-> 1, pc |-> "scan", j |-> 0, tries |-> 0, spent |-> {}]

\* if (rand() < rewireProb), r the value of rand()
WSScanOp(w, r) ==
    IF DrawBelow(r, w.arg.rewireProb)
    THEN [w EXCEPT !.pc = "pick"]
    ELSE [w EXCEPT !.idx = @ + 1]

\* let j = Math.floor(rand() * n); let tries = 0
WSPickOp(w, r) == [w EXCEPT !.j = FloorMul(r, w.n), !.tries = 0, !.pc = "while"]

\* j === i || hasEdge(links, i, j)
Taken(w) == w.j = w.links[w.idx].source \/ hasEdge(w.links, w.links[w.idx].source, w.j)

\* the guard of the while loop, before tries++ takes effect
Retrying(w) == Taken(w) /\ w.tries < MaxTries

\* the body of the while loop: j = Math.floor(rand() * n)
WSRetryOp(w, r) == [w EXCEPT !.j = FloorMul(r, w.n), !.tries = @ + 1]

\* the loop is left: links[idx].target = j; j and tries go out of scope
WSAssignOp(w) ==
    [w EXCEPT !.links = Rewire(w.links, w.idx, w.j),
              !.spent = IF Taken(w) THEN @ \cup {w.idx} ELSE @,
              !.j = 0,
              !.tries = 0,
              !.idx = @ + 1,
              !.pc = "scan"]

\* the arguments of the calls: any n and k when nothing is rewired, small ones otherwise
WSArgs ==
    { x \in [n : 0 .. MaxWSN, k : 0 .. MaxK,
             rewireProb : {Prob(0, 1), Prob(1, 2), Prob(1, 1)}] :
        x.rewireProb.num = 0 \/ (x.n <= MaxRewN /\ x.k <= 2) }

InitWS ==
    /\ SimIdle
    /\ ws \in { WSStart(x.n, x.k, x.rewireProb) : x \in WSArgs }
    /\ ba = [pc |-> "idle"]
    /\ cl = [pc |-> "idle"]
    /\ ui = [pc |-> "idle"]
    /\ calls = <<>>

WSScan ==
    /\ ws.pc = "scan"
    /\ ws.idx <= Len(ws.links)
    /\ \E r \in Draws : ws' = WSScanOp(ws, r)
    /\ UNCHANGED <<simvars, ba, cl, ui, calls>>

WSPick ==
    /\ ws.pc = "pick"
    /\ \E r \in Draws : ws' = WSPickOp(ws, r)
    /\ UNCHANGED <<simvars, ba, cl, ui, calls>>

WSRetry ==
    /\ ws.pc = "while"
    /\ Retrying(ws)
    /\ \E r \in Draws : ws' = WSRetryOp(ws, r)
    /\ UNCHANGED <<simvars, ba, cl, ui, calls>>

WSAssign ==
    /\ ws.pc = "while"
    /\ ~ Retrying(ws)
    /\ ws' = WSAssignOp(ws)
    /\ UNCHANGED <<simvars, ba, cl, ui, calls>>

\* return { nodes, links }
WSReturn ==
    /\ ws.pc = "scan"
    /\ ws.idx > Len(ws.links)
    /\ ws' = [ws EXCEPT !.pc = "done"]
    /\ UNCHANGED <<simvars, ba, cl, ui, calls>>

NextWS == WSScan \/ WSPick \/ WSRetry \/ WSAssign \/ WSReturn

SpecWS == InitWS /\ [][NextWS]_vars

\* makeWS runs to its end: the function is synchronous, no step of it waits
SpecWSRun == InitWS /\ [][NextWS]_vars /\ WF_vars(NextWS)

-----------------------------------------------------------------------------
(* makeBA *)

\* for (let i = 0; i < init; i++) for (let j = i + 1; j < init; j++) links.push(i, j):
\* the links pushed from the pair (i, j) on
RECURSIVE CoreLinks(_, _, _)
CoreLinks(i, j, init) ==
    IF i >= init THEN <<>>
    ELSE IF j >= init THEN CoreLinks(i + 1, i + 2, init)
    ELSE <<[source |-> i, target |-> j]>> \o CoreLinks(i, j + 1, init)

\* deg[e.source]++; deg[e.target]++ over the links
DegOf(links, u) ==
    Cardinality({ e \in 1 .. Len(links) : links[e].source = u })
    + Cardinality({ e \in 1 .. Len(links) : links[e].target = u })

\* for (let i = 0; i < init; i++) for (let k = 0; k < deg[i]; k++) bag.push(i):
\* the entries pushed from node i on
RECURSIVE CoreBag(_, _, _)
CoreBag(i, init, links) ==
    IF i >= init THEN <<>>
    ELSE [x \in 1 .. DegOf(links, i) |-> i] \o CoreBag(i + 1, init, links)

\* the locals of makeBA(n, m) when its growth loop begins
BAStart(n, m) ==
    LET init == Max(m + 1, 2)
        core == CoreLinks(0, 1, init)
    IN  [arg |-> [n |-> n, m |-> m],
         n |-> n, m |-> m, init |-> init,
         nodes |-> NodesOf(n),
         links |-> core,
         bag |-> CoreBag(0, init, core),
         v |-> init, targets |-> <<>>, pc |-> "grow"]

\* const u = bag.length ? bag[Math.floor(rand() * bag.length)] : Math.floor(rand() * v)
BADraw(b, r) ==
    IF Len(b.bag) # 0 THEN b.bag[FloorMul(r, Len(b.bag)) + 1] ELSE FloorMul(r, b.v)

\* targets.add(u) on a Set that iterates in insertion order
AddTarget_list(targets, u) == Append(targets, u)
AddTarget(targets, u) ==
    IF \E x \in 1 .. Len(targets) : targets[x] = u THEN targets ELSE Append(targets, u)

\* if (u !== v) targets.add(u)
BAPickOp(b, r) ==
    LET u == BADraw(b, r)
    IN  IF u # b.v THEN [b EXCEPT !.targets = AddTarget(@, u)] ELSE b

\* for (const u of targets) { links.push({source: v, target: u}); bag.push(v); bag.push(u) }
RECURSIVE Connect(_, _, _)
Connect(b, targets, x) ==
    IF x > Len(targets) THEN b
    ELSE Connect([b EXCEPT !.links = Append(@, [source |-> b.v, target |-> targets[x]]),
                           !.bag = Append(Append(@, b.v), targets[x])],
                 targets, x + 1)

\* the guard of `while (targets.size < Math.min(m, v))`
NeedsTarget(b) == Len(b.targets) < Min(b.m, b.v)

BAArgs == [n : 0 .. MaxBAN, m : 0 .. MaxM]

InitBA ==
    /\ SimIdle
    /\ ba \in { BAStart(x.n, x.m) : x \in BAArgs }
    /\ ws = [pc |-> "idle"]
    /\ cl = [pc |-> "idle"]
    /\ ui = [pc |-> "idle"]
    /\ calls = <<>>

BAPick ==
    /\ ba.pc = "grow"
    /\ ba.v < ba.n
    /\ NeedsTarget(ba)
    /\ \E r \in Draws : ba' = BAPickOp(ba, r)
    /\ UNCHANGED <<simvars, ws, cl, ui, calls>>

BAConnect ==
    /\ ba.pc = "grow"
    /\ ba.v < ba.n
    /\ ~ NeedsTarget(ba)
    /\ ba' = [Connect(ba, ba.targets, 1) EXCEPT !.v = @ + 1, !.targets = <<>>]
    /\ UNCHANGED <<simvars, ws, cl, ui, calls>>

\* return { nodes, links }
BAReturn ==
    /\ ba.pc = "grow"
    /\ ba.v >= ba.n
    /\ ba' = [ba EXCEPT !.pc = "done"]
    /\ UNCHANGED <<simvars, ws, cl, ui, calls>>

NextBA == BAPick \/ BAConnect \/ BAReturn

SpecBA == InitBA /\ [][NextBA]_vars

-----------------------------------------------------------------------------
(* makeClustered *)

\* const size = ci === c - 1 ? n - idx : clusterSize
ClusterSizeOf_even(ci, c, n, idx, clusterSize) == clusterSize
ClusterSizeOf(ci, c, n, idx, clusterSize) == IF ci = c - 1 THEN n - idx ELSE clusterSize

\* the rewiring probability 0.05 of the makeWS call of each cluster
IntraRewire == Prob(1, 20)

\* the locals of makeClustered(n, c, k, interProb) when its cluster loop begins
CLStart(n, c, k, p) ==
    [arg |-> [n |-> n, c |-> c, k |-> k, interProb |-> p],
     n |-> n, c |-> c, k |-> k, interProb |-> p,
     nodes |-> NodesOf(n),
     links |-> <<>>,
     clusterSize |-> n \div c,
     clusters |-> <<>>, idx |-> 0, ci |-> 0,
     pair |-> 1, pc |-> "clusters"]

\* for (const l of ws.links) links.push({ source: cluster[l.source], target: cluster[l.target] })
Remap(links, cluster) ==
    [e \in 1 .. Len(links) |->
        [source |-> cluster[links[e].source + 1], target |-> cluster[links[e].target + 1]]]

\* for (const u of A) for (const v of B): the pairs (u, v) in the order of the loops
PairsOf(A, B) ==
    [q \in 1 .. (Len(A) * Len(B)) |->
        <<A[((q - 1) \div Len(B)) + 1], B[((q - 1) % Len(B)) + 1]>>]

\* for (let i = 0; i < c; i++) for (let j = i + 1; j < c; j++): all pairs from (i, j) on
RECURSIVE InterPairs(_, _, _)
InterPairs(clusters, i, j) ==
    IF i > Len(clusters) THEN <<>>
    ELSE IF j > Len(clusters) THEN InterPairs(clusters, i + 1, i + 2)
    ELSE PairsOf(clusters[i], clusters[j]) \o InterPairs(clusters, i, j + 1)

\* if (rand() < interProb) links.push({ source: u, target: v })
CLInterOp(c, r) ==
    LET uv == InterPairs(c.clusters, 1, 2)[c.pair]
    IN  [c EXCEPT !.links = IF DrawBelow(r, c.interProb)
                            THEN Append(@, [source |-> uv[1], target |-> uv[2]])
                            ELSE @,
                  !.pair = @ + 1]

CLArgs ==
    [n : 0 .. MaxCLN, c : 1 .. MaxC, k : {0, 2}, interProb : {Prob(0, 1), Prob(1, 2)}]

InitClustered ==
    /\ SimIdle
    /\ cl \in { CLStart(x.n, x.c, x.k, x.interProb) : x \in CLArgs }
    /\ ws = [pc |-> "idle"]
    /\ ba = [pc |-> "idle"]
    /\ ui = [pc |-> "idle"]
    /\ calls = <<>>

\* one cluster: its ids, and the call makeWS(cluster.length, k, 0.05, seed + ci + 1)
CLCluster ==
    /\ cl.pc = "clusters"
    /\ cl.ci < cl.c
    /\ LET size == ClusterSizeOf(cl.ci, cl.c, cl.n, cl.idx, cl.clusterSize)
           cluster == [x \in 1 .. size |-> cl.idx + x - 1]
       IN  /\ cl' = [cl EXCEPT !.clusters = Append(@, cluster),
                               !.idx = @ + Len(cluster),
                               !.pc = "makeWS"]
           /\ ws' = WSStart(Len(cluster), cl.k, IntraRewire)
    /\ UNCHANGED <<simvars, ba, ui, calls>>

\* makeWS returned: its links are pushed with the ids of the cluster
CLRemap ==
    /\ cl.pc = "makeWS"
    /\ ws.pc = "done"
    /\ cl' = [cl EXCEPT !.links = @ \o Remap(ws.links, cl.clusters[Len(cl.clusters)]),
                        !.ci = @ + 1,
                        !.pc = "clusters"]
    /\ ws' = [pc |-> "idle"]
    /\ UNCHANGED <<simvars, ba, ui, calls>>

\* one pair (u, v) of the inter-cluster loops
CLInter ==
    /\ cl.pc = "clusters"
    /\ cl.ci >= cl.c
    /\ cl.pair <= Len(InterPairs(cl.clusters, 1, 2))
    /\ \E r \in Draws : cl' = CLInterOp(cl, r)
    /\ UNCHANGED <<simvars, ws, ba, ui, calls>>

\* return { nodes, links }
CLReturn ==
    /\ cl.pc = "clusters"
    /\ cl.ci >= cl.c
    /\ cl.pair > Len(InterPairs(cl.clusters, 1, 2))
    /\ cl' = [cl EXCEPT !.pc = "done"]
    /\ UNCHANGED <<simvars, ws, ba, ui, calls>>

NextClustered ==
    \/ CLCluster \/ WSScan \/ WSPick \/ WSRetry \/ WSAssign \/ WSReturn \/ CLRemap
    \/ CLInter \/ CLReturn

SpecClustered == InitClustered /\ [][NextClustered]_vars

-----------------------------------------------------------------------------
(* handleSimulate (part_000): the controls are clamped, the graph is built,   *)
(* simulateSIR runs on it and the results are stored                          *)

\* clamp(v, lo, hi)
clamp(v, lo, hi) == Max(lo, Min(hi, v))

\* clamp(rewire, 0, 1) on a fraction
clampProb(p) ==
    IF p.num < 0 THEN Prob(0, 1) ELSE IF p.num > p.den THEN Prob(1, 1) ELSE p

\* the default of simulateSIR's parameter gain, 0.25
GainDefault == ONE \div 4

\* the controls of the runs: a small-world graph without rewiring, no infection
\* rate, recovery rate 1
Controls ==
    [graphType : {"ws"}, population : {0, 100}, k : {0, 4, 20}, rewire : {Prob(0, 1)},
     steps : 0 .. MaxUISteps, beta : {0}, gamma : {1}, initInf : {0, 1}]

InitHandle ==
    /\ SimIdle
    /\ ui \in { [pc |-> "ready", busy |-> FALSE, controls |-> c,
                 graph |-> <<>>, timeline |-> <<>>, t |-> 0] : c \in Controls }
    /\ ws = [pc |-> "idle"]
    /\ ba = [pc |-> "idle"]
    /\ cl = [pc |-> "idle"]
    /\ calls = <<>>

\* const n = clamp(population, 10, 6000); gg = makeWS(n, clamp(k, 2, 200), clamp(rewire, 0, 1), usedSeed)
HSGenerate ==
    /\ ui.pc = "ready"
    /\ ui.controls.graphType = "ws"
    /\ ws' = WSStart(clamp(ui.controls.population, 10, 6000),
                     clamp(ui.controls.k, 2, 200),
                     clampProb(ui.controls.rewire))
    /\ ui' = [ui EXCEPT !.pc = "makeWS", !.busy = TRUE]
    /\ UNCHANGED <<simvars, ba, cl, calls>>

\* simulateSIR(gg, clamp(steps, 1, 3000), beta, gamma, delta, clamp(initInf, 1, n), usedSeed):
\* the call, up to the seeding loop
HSSimulate ==
    /\ ui.pc = "makeWS"
    /\ ws.pc = "done"
    /\ LET gg == [nodes |-> ws.nodes, n |-> Len(ws.nodes), links |-> ws.links] IN
       /\ engine' = "simulateSIR"
       /\ args' = [graph |-> gg,
                   steps |-> clamp(ui.controls.steps, 1, 3000),
                   beta |-> ui.controls.beta,
                   gamma |-> ui.controls.gamma,
                   initialInfected |-> clamp(ui.controls.initInf, 1, gg.n),
                   gain |-> GainDefault]
       /\ adj' = buildAdjacency(gg)
       /\ states' = [u \in Ids(gg.n) |-> 0]
       /\ resistance' = [u \in Ids(gg.n) |-> 0]
       /\ ui' = [ui EXCEPT !.pc = "simulateSIR", !.graph = gg]
    /\ pc' = "seed"
    /\ picked' = {}
    /\ timeline' = <<>>
    /\ t' = 1
    /\ UNCHANGED <<times, clock, ev, exit, ws, ba, cl, calls>>

\* setGraph(gg); setTimeline(tl); setT(0); setBusy(false)
HSShow ==
    /\ ui.pc = "simulateSIR"
    /\ pc = "done"
    /\ ui' = [ui EXCEPT !.pc = "shown", !.timeline = timeline, !.t = 0, !.busy = FALSE]
    /\ UNCHANGED <<simvars, ws, ba, cl, calls>>

NextHandle ==
    \/ HSGenerate \/ WSScan \/ WSReturn \/ HSSimulate
    \/ SeedPick \/ SeedDone \/ Step \/ Return \/ HSShow

SpecHandle == InitHandle /\ [][NextHandle]_vars

-----------------------------------------------------------------------------
(* handleSimulate (part_000) on controls holding any number *)

\* the values of the controls: below, inside and above the ranges of the inputs
ControlValues ==
    { c \in [graphType : {"ws"}, population : {-5, 100}, k : {-1, 4, 20},
             rewire : {Prob(-1, 2), Prob(0, 1)}, steps : {-2, 0, MaxUISteps},
             beta : {-1, 0}, gamma : {-1, 1}, initInf : {-3, 0, 1}] :
        c.population = 100 => c.k = 4 }

InitControls ==
    /\ SimIdle
    /\ ui \in { [pc |-> "ready", busy |-> FALSE, controls |-> c,
                 graph |-> <<>>, timeline |-> <<>>, t |-> 0] : c \in ControlValues }
    /\ ws = [pc |-> "idle"]
    /\ ba = [pc |-> "idle"]
    /\ cl = [pc |-> "idle"]
    /\ calls = <<>>

SpecControls == InitControls /\ [][NextHandle]_vars

-----------------------------------------------------------------------------
(* Both engines, run without an infection rate *)

InitBetaZero ==
    /\ InitSIR \/ InitGillespie
    /\ args.beta = 0

NextBetaZero ==
    \/ SeedPick \/ SeedDone \/ Step \/ Return
    \/ Absorbing \/ Horizon \/ Event \/ Cap

SpecBetaZero == InitBetaZero /\ [][NextBetaZero]_vars

-----------------------------------------------------------------------------
(* Both engines, run with infection rate 1 and recovery rate 1 *)

InitEngines ==
    /\ InitSIR \/ InitGillespie
    /\ args.beta = 1
    /\ args.gamma = 1

SpecEngines == InitEngines /\ [][NextBetaZero]_vars

-----------------------------------------------------------------------------
(* mulberry32, on 32-bit words kept as <<high half, low half>> *)

W16 == 65536

\* x ^ y and x | y on numbers of the given number of bits
RECURSIVE BitXor(_, _, _)
BitXor(x, y, bits) ==
    IF bits = 0 THEN 0
    ELSE ((x + y) % 2) + 2 * BitXor(x \div 2, y \div 2, bits - 1)

RECURSIVE BitOr(_, _, _)
BitOr(x, y, bits) ==
    IF bits = 0 THEN 0
    ELSE (IF x % 2 = 1 \/ y % 2 = 1 THEN 1 ELSE 0) + 2 * BitOr(x \div 2, y \div 2, bits - 1)

Xor32(x, y) == <<BitXor(x[1], y[1], 16), BitXor(x[2], y[2], 16)>>

\* x | c for a constant c < 2^16
Or32(x, c) == <<x[1], BitOr(x[2], c, 16)>>

\* x >>> s for 0 < s < 16
Shr32(x, s) ==
    <<x[1] \div Pow(2, s), (x[2] \div Pow(2, s)) + (x[1] % Pow(2, s)) * Pow(2, 16 - s)>>

\* (x + y) modulo 2^32
Add32(x, y) ==
    LET lo == x[2] + y[2]
        hi == x[1] + y[1] + (lo \div W16)
    IN  <<hi % W16, lo % W16>>

\* Math.imul(x, y): the low 32 bits of the product, computed on bytes
Imul32(x, y) ==
    LET x0 == x[2] % 256   x1 == x[2] \div 256   x2 == x[1] % 256   x3 == x[1] \div 256
        y0 == y[2] % 256   y1 == y[2] \div 256   y2 == y[1] % 256   y3 == y[1] \div 256
        s0 == x0 * y0
        s1 == x0 * y1 + x1 * y0 + (s0 \div 256)
        s2 == x0 * y2 + x1 * y1 + x2 * y0 + (s1 \div 256)
        s3 == x0 * y3 + x1 * y2 + x2 * y1 + x3 * y0 + (s2 \div 256)
    IN  <<(s3 % 256) * 256 + (s2 % 256), (s1 % 256) * 256 + (s0 % 256)>>

\* 0x6d2b79f5
Increment == <<27947, 31221>>

\* t = Math.imul(t ^ (t >>> 15), t | 1)
Scramble(x) ==
    CHOOSE r \in { Imul32(q, o) : q \in {Xor32(x, Shr32(x, 15))}, o \in {Or32(x, 1)} } : TRUE

\* t ^= t + Math.imul(t ^ (t >>> 7), t | 61)
Fold(x) ==
    CHOOSE r \in { Xor32(x, y) :
                     y \in { Add32(x, Imul32(q, o)) :
                               q \in {Xor32(x, Shr32(x, 7))}, o \in {Or32(x, 61)} } } : TRUE

\* (t ^ (t >>> 14)) >>> 0
Temper(x) == Xor32(x, Shr32(x, 14))

\* one call of the function mulberry32(seed) returns, on its captured a: the new
\* a and the 32-bit numerator of the returned value; each intermediate t is
\* bound to its value before the next line uses it
mulberry32(a) ==
    CHOOSE m \in { [a |-> a1, value |-> Temper(t2)] :
                     a1 \in {Add32(a, Increment)},
                     t2 \in { Fold(t1) : t1 \in { Scramble(a0) : a0 \in {Add32(a, Increment)} } } } : TRUE

\* the captured a of mulberry32(seed) before its first call
SeedWord(seed) == <<seed \div W16, seed % W16>>

\* value / 4294967296 on the grid of the draws: Math.floor(rand() * RDen)
DrawOf(value) == value[1] \div (W16 \div RDen)

-----------------------------------------------------------------------------
(* Calls of makeWS and simulateSIR running side by side, each drawing from the *)
(* generator it made with `const rand = mulberry32(seed)`                     *)

\* the generator a call draws from: the one the call itself constructed
RngOf_shared(c) == 1
RngOf(c) == c

\* the locals of simulateSIR when its seeding loop begins
SimStart(x) ==
    [pc |-> "seed", adj |-> buildAdjacency(x.graph), picked |-> {},
     states |-> [u \in Ids(x.graph.n) |-> 0],
     resistance |-> [u \in Ids(x.graph.n) |-> 0],
     timeline |-> <<>>, t |-> 1]

\* a call at its entry
NewCall(x) ==
    [arg |-> x, rand |-> SeedWord(x.seed), drawn |-> <<>>,
     w |-> IF x.fn = "makeWS" THEN WSStart(x.n, x.k, x.rewireProb) ELSE SimStart(x)]

\* whether the next step of makeWS calls rand()
WSDraws(w) ==
    \/ w.pc = "scan" /\ w.idx <= Len(w.links)
    \/ w.pc = "pick"
    \/ w.pc = "while" /\ Retrying(w)

\* the next step of makeWS, r being the value of rand() if the step calls it
WSNextOp(w, r) ==
    CASE w.pc = "scan" /\ w.idx <= Len(w.links) -> WSScanOp(w, r)
      [] w.pc = "scan" /\ w.idx > Len(w.links) -> [w EXCEPT !.pc = "done"]
      [] w.pc = "pick" -> WSPickOp(w, r)
      [] w.pc = "while" /\ Retrying(w) -> WSRetryOp(w, r)
      [] w.pc = "while" /\ ~ Retrying(w) -> WSAssignOp(w)

\* whether the body of the loop over u calls rand() for node u
NodeDraws(u, st, w, a) ==
    \/ st[u] = 1
    \/ st[u] = 0 /\ InfectedNeighbours(a, NeighbourSource(st, w.scratch), u) > 0

\* the loop over u = 0 .. n-1 with the draws taken from the generator in order;
\* acc = [w, rand, out]: scratch and resistance, the generator, the values drawn
RECURSIVE DetNodes(_, _, _, _, _, _)
DetNodes(u, n, st, acc, a, x) ==
    IF u >= n THEN acc
    ELSE CHOOSE res \in
            { DetNodes(u + 1, n, st, nxt, a, x) :
                nxt \in { IF NodeDraws(u, st, acc.w, a)
                          THEN [w |-> StepNode(u, st, acc.w, DrawOf(m.value), a, x.beta, x.gamma, x.gain),
                                rand |-> m.a,
                                out |-> Append(acc.out, m.value)]
                          ELSE [w |-> StepNode(u, st, acc.w, 0, a, x.beta, x.gamma, x.gain),
                                rand |-> acc.rand,
                                out |-> acc.out] :
                          m \in {mulberry32(acc.rand)} } } : TRUE

\* the arguments of the calls
CallArgs ==
    [fn : {"makeWS"}, n : {5}, k : {2}, rewireProb : {Prob(1, 2)}, seed : 1 .. MaxSeed]
    \cup
    [fn : {"simulateSIR"}, graph : {Graph(3, RingLattice(3, 2))},
     steps : {MaxCallSteps}, beta : {1}, gamma : {1}, initialInfected : {1},
     gain : {GainDefault}, seed : 1 .. MaxSeed]

\* the calls: two with the same arguments and a third
CallIds == {1, 2, 3}

InitCalls ==
    /\ SimIdle
    /\ ws = [pc |-> "idle"]
    /\ ba = [pc |-> "idle"]
    /\ cl = [pc |-> "idle"]
    /\ ui = [pc |-> "idle"]
    /\ \E x \in CallArgs, z \in CallArgs : calls = <<NewCall(x), NewCall(x), NewCall(z)>>

\* the step of call c gave the locals w, left the generator at rand and drew out
Advanced(c, w, rand, out) ==
    /\ calls' = [calls EXCEPT ![c].w = w, ![c].drawn = @ \o out, ![RngOf(c)].rand = rand]
    /\ UNCHANGED <<simvars, ws, ba, cl, ui>>

\* one step of makeWS with the draw, if it takes one, from the generator;
\* acc = [w, rand, out]: the locals, the generator, the values drawn
WSLinkStep(acc) ==
    CHOOSE nxt \in { IF WSDraws(acc.w)
                     THEN [w |-> WSNextOp(acc.w, DrawOf(m.value)),
                           rand |-> m.a,
                           out |-> Append(acc.out, m.value)]
                     ELSE [w |-> WSNextOp(acc.w, 0), rand |-> acc.rand, out |-> acc.out] :
                     m \in {mulberry32(acc.rand)} } : TRUE

\* the body of `for (const e of links)` for one link, or the return after the
\* last one
RECURSIVE WSLinkRun(_)
WSLinkRun(acc) ==
    CHOOSE res \in { IF nxt.w.pc \in {"scan", "done"} THEN nxt ELSE WSLinkRun(nxt) :
                     nxt \in {WSLinkStep(acc)} } : TRUE

\* makeWS: the rewiring of one link
CallWS(c) ==
    /\ calls[c].arg.fn = "makeWS"
    /\ calls[c].w.pc # "done"
    /\ \E acc \in {WSLinkRun([w |-> calls[c].w, rand |-> calls[RngOf(c)].rand, out |-> <<>>])} :
          Advanced(c, acc.w, acc.rand, acc.out)

\* simulateSIR: while (picked.size < target) picked.add(Math.floor(rand() * n))
CallSeedPick(c) ==
    /\ calls[c].arg.fn = "simulateSIR"
    /\ calls[c].w.pc = "seed"
    /\ SeedMore(Cardinality(calls[c].w.picked),
                SeedTarget(calls[c].arg.initialInfected, calls[c].arg.graph.n))
    /\ \E m \in {mulberry32(calls[RngOf(c)].rand)} :
       Advanced(c, [calls[c].w EXCEPT
                      !.picked = @ \cup {FloorMul(DrawOf(m.value), calls[c].arg.graph.n)}],
                m.a, <<m.value>>)

\* simulateSIR: for (const j of picked) states[j] = 1; timeline = [states.slice()]
CallSeedDone(c) ==
    /\ calls[c].arg.fn = "simulateSIR"
    /\ calls[c].w.pc = "seed"
    /\ ~ SeedMore(Cardinality(calls[c].w.picked),
                  SeedTarget(calls[c].arg.initialInfected, calls[c].arg.graph.n))
    /\ LET st == [u \in Ids(calls[c].arg.graph.n) |->
                     IF u \in calls[c].w.picked THEN 1 ELSE calls[c].w.states[u]]
       IN  Advanced(c, [calls[c].w EXCEPT !.states = st, !.timeline = <<st>>, !.pc = "loop"],
                    calls[RngOf(c)].rand, <<>>)

\* simulateSIR: one pass of the loop over t
CallStep(c) ==
    /\ calls[c].arg.fn = "simulateSIR"
    /\ calls[c].w.pc = "loop"
    /\ StepCond(calls[c].w.t, calls[c].arg.steps)
    /\ \E w \in {calls[c].w} :
       \E acc \in {DetNodes(0, calls[c].arg.graph.n, w.states,
                            [w |-> [scratch |-> w.states, resistance |-> w.resistance],
                             rand |-> calls[RngOf(c)].rand, out |-> <<>>],
                            w.adj, calls[c].arg)} :
           Advanced(c, [w EXCEPT !.states = acc.w.scratch,
                                 !.resistance = acc.w.resistance,
                                 !.timeline = Append(@, acc.w.scratch),
                                 !.t = @ + 1],
                    acc.rand, acc.out)

\* simulateSIR: return timeline
CallReturn(c) ==
    /\ calls[c].arg.fn = "simulateSIR"
    /\ calls[c].w.pc = "loop"
    /\ ~ StepCond(calls[c].w.t, calls[c].arg.steps)
    /\ Advanced(c, [calls[c].w EXCEPT !.pc = "done"], calls[RngOf(c)].rand, <<>>)

NextCalls ==
    \/ \E c \in CallIds : CallWS(c)
    \/ \E c \in CallIds : CallSeedPick(c)
    \/ \E c \in CallIds : CallSeedDone(c)
    \/ \E c \in CallIds : CallStep(c)
    \/ \E c \in CallIds : CallReturn(c)

SpecCalls == InitCalls /\ [][NextCalls]_vars

-----------------------------------------------------------------------------
(* seriesFromTimeline: the counts of one snapshot *)

\* if (v === 0) s++
CountS(arr) == Cardinality({ k \in DOMAIN arr : arr[k] = 0 })

\* else if (v === 1) i++
CountI(arr) == Cardinality({ k \in DOMAIN arr : arr[k] = 1 })

\* else r++
CountR(arr) == Cardinality({ k \in DOMAIN arr : arr[k] # 0 /\ arr[k] # 1 })

-----------------------------------------------------------------------------
(* Properties of simulateSIR, checked under SpecSIR *)

Recovered(arr) == { k \in DOMAIN arr : arr[k] = 2 }

\* C1: in every snapshot of the timeline of simulateSIR every node holds one of
\* the states 0 (S), 1 (I), 2 (R); the R count of seriesFromTimeline is the
\* number of Recovered nodes and countS + countI + countR = N.
C1_CountsSumToN ==
    \A i \in 1 .. Len(timeline) :
        /\ \A u \in Ids(args.graph.n) : timeline[i][u] \in {0, 1, 2}
        /\ CountR(timeline[i]) = Cardinality(Recovered(timeline[i]))
        /\ CountS(timeline[i]) + CountI(timeline[i]) + CountR(timeline[i]) = args.graph.n

\* a returned timeline with a snapshot in which all three compartments are populated
C1_Witness ==
    /\ pc = "done"
    /\ \E i \in 2 .. Len(timeline) :
         /\ CountS(timeline[i]) > 0
         /\ CountI(timeline[i]) > 0
         /\ CountR(timeline[i]) > 0

\* C2: a node that is Recovered in snapshot i is Recovered in every later
\* snapshot of the same run.
C2_RecoveredAbsorbing ==
    \A i \in 1 .. Len(timeline) : \A j \in i .. Len(timeline) :
        \A u \in Ids(args.graph.n) : timeline[i][u] = 2 => timeline[j][u] = 2

\* a node recovered by the first step, with further steps taken after it while
\* another node is still infected
C2_Witness ==
    /\ Len(timeline) >= 3
    /\ \E u \in Ids(args.graph.n), v \in Ids(args.graph.n) :
         /\ timeline[2][u] = 2
         /\ timeline[2][v] = 1
         /\ timeline[3][u] = 2

\* C3: every resistance stays within [0, 1], and a node is Recovered only
\* while its resistance is exactly 1.
C3_ResistanceRange ==
    \A u \in Ids(args.graph.n) :
        /\ resistance[u] >= 0
        /\ resistance[u] <= ONE
        /\ states[u] = 2 => resistance[u] = ONE

\* a gain above 1 was clamped: a node is Recovered with resistance exactly 1
\* while another node is still Infected with resistance 0
C3_Witness ==
    /\ args.gain > ONE
    /\ \E u \in Ids(args.graph.n), v \in Ids(args.graph.n) :
         /\ states[u] = 2
         /\ resistance[u] = ONE
         /\ states[v] = 1
         /\ resistance[v] = 0

\* what one node becomes in a synchronous step: computed from the snapshot st
\* and the resistances rs as they were when the step began, and the node's draw r
SyncNode(u, st, rs, r) ==
    LET m == Cardinality({ k \in 1 .. Len(adj[u]) : st[adj[u][k]] = 1 }) IN
    CASE st[u] = 0 ->
           IF m > 0 /\ DrawBelowInf(r, args.beta, m, rs[u]) THEN <<1, rs[u]>>
           ELSE <<0, rs[u]>>
      [] st[u] = 1 ->
           IF DrawBelowRec(r, args.gamma)
           THEN IF rs[u] + args.gain >= ONE THEN <<2, ONE>>
                ELSE <<0, Fround(rs[u] + args.gain)>>
           ELSE <<1, rs[u]>>
      [] OTHER -> <<2, rs[u]>>

\* C4: every step of simulateSIR gives each node the state and resistance a
\* synchronous update computes from the previous snapshot alone, for some value
\* of that node's own draw.
C4_Synchronous ==
    [][ (engine = "simulateSIR" /\ pc = "loop" /\ t' = t + 1) =>
            \A u \in Ids(args.graph.n) : \E r \in Draws :
                <<states'[u], resistance'[u]>> = SyncNode(u, states, resistance, r) ]_vars

\* a step in which node u became Infected while its later-scanned Susceptible
\* neighbour v, which had no Infected neighbour when the step began, stayed Susceptible
C4_Witness ==
    /\ engine = "simulateSIR"
    /\ Len(timeline) >= 2
    /\ \E u \in Ids(args.graph.n), v \in Ids(args.graph.n) :
         /\ u < v
         /\ \E k \in 1 .. Len(adj[v]) : adj[v][k] = u
         /\ timeline[1][u] = 0
         /\ timeline[2][u] = 1
         /\ timeline[1][v] = 0
         /\ \A k \in 1 .. Len(adj[v]) : timeline[1][adj[v][k]] # 1
         /\ timeline[2][v] = 0

\* C6: simulateSIR returns exactly steps + 1 snapshots of length N, the first
\* being the seeded one; it takes every step, also when no node is Infected.
C6_TimelineLength ==
    /\ pc = "loop" /\ engine = "simulateSIR" => Len(timeline) = t
    /\ pc = "done" =>
         /\ Len(timeline) = args.steps + 1
         /\ \A i \in 1 .. Len(timeline) : DOMAIN timeline[i] = Ids(args.graph.n)
         /\ timeline[1] = [u \in Ids(args.graph.n) |-> IF u \in picked THEN 1 ELSE 0]

\* a returned run of two or more steps in which no node was Infected after the first
C6_Witness ==
    /\ pc = "done"
    /\ args.steps >= 2
    /\ Len(timeline) = args.steps + 1
    /\ CountI(timeline[1]) > 0
    /\ CountI(timeline[2]) = 0

-----------------------------------------------------------------------------
(* Seeding, checked under SpecSeed *)

\* C5: snapshot 0 of either engine holds exactly min(initialInfected, N)
\* Infected nodes, every other node is Susceptible, none is Recovered and every
\* resistance is 0; with initialInfected > N all nodes start Infected.
C5_InitialSeeding ==
    pc = "loop" =>
        /\ Len(timeline) = 1
        /\ timeline[1] = states
        /\ CountI(states) = Min(args.initialInfected, args.graph.n)
        /\ CountS(states) = args.graph.n - Min(args.initialInfected, args.graph.n)
        /\ Recovered(states) = {}
        /\ \A u \in Ids(args.graph.n) : resistance[u] = 0
        /\ args.initialInfected > args.graph.n => \A u \in Ids(args.graph.n) : states[u] = 1

\* the event engine seeded with more than N requested: all of two or more nodes Infected
C5_Witness ==
    /\ pc = "loop"
    /\ engine = "gillespieSIR"
    /\ args.graph.n >= 2
    /\ args.initialInfected > args.graph.n
    /\ \A u \in Ids(args.graph.n) : states[u] = 1

-----------------------------------------------------------------------------
(* Properties of gillespieSIR, checked under SpecGillespie *)

C8_EventCap ==
    /\ Len(times) = Len(timeline)
    /\ pc # "seed" => Len(timeline) - 1 <= args.maxEvents

\* a run that was stopped by the cap with a rate still positive
C8_Witness ==
    /\ pc = "done"
    /\ exit = "maxEvents"
    /\ args.maxEvents >= 1
    /\ Len(timeline) - 1 = args.maxEvents
    /\ Rtot(states, adj, args) > 0

\* C9: an iteration that starts with Rtot <= 0 leaves the loop, before the cap,
\* and records nothing; and with beta > 0 and gamma > 0 a run that ended this
\* way has no Infected node in its final snapshot.
C9_AbsorbingStop ==
    [][ /\ (InLoop /\ Rtot(states, adj, args) <= 0) =>
             /\ pc' = "done"
             /\ exit' = "absorbing"
             /\ <<states, timeline, times, clock>>' = <<states, timeline, times, clock>>
        /\ (exit' = "absorbing" /\ args.beta > 0 /\ args.gamma > 0) =>
             /\ ev' < args.maxEvents
             /\ timeline'[Len(timeline')] = states'
             /\ \A u \in Ids(args.graph.n) : states'[u] # 1 ]_vars

\* an epidemic with positive rates that died out after at least one event, before the cap
C9_Witness ==
    /\ exit = "absorbing"
    /\ args.beta > 0
    /\ args.gamma > 0
    /\ Len(timeline) >= 2
    /\ ev < args.maxEvents
    /\ CountR(states) > 0

\* the nodes at which two snapshots differ
Changed(x, y) == { u \in DOMAIN x : x[u] # y[u] }

\* C10: consecutive snapshots differ at exactly one node, which went from
\* Susceptible to Infected or from Infected to Recovered.
C10_OneNodePerEvent ==
    \A i \in 1 .. (Len(timeline) - 1) :
        /\ Cardinality(Changed(timeline[i], timeline[i + 1])) = 1
        /\ \A u \in Changed(timeline[i], timeline[i + 1]) :
             \/ timeline[i][u] = 0 /\ timeline[i + 1][u] = 1
             \/ timeline[i][u] = 1 /\ timeline[i + 1][u] = 2

\* a node infected by the first event and recovered by the second, next to an
\* Infected node that did not change
C10_Witness ==
    /\ Len(timeline) >= 3
    /\ \E u \in Ids(args.graph.n), v \in Ids(args.graph.n) :
         /\ timeline[1][u] = 0
         /\ timeline[2][u] = 1
         /\ timeline[3][u] = 2
         /\ timeline[1][v] = 1
         /\ timeline[3][v] = 1

\* C11: an iteration whose clock, after dt was added, exceeds tMax leaves the
\* loop before an event is selected: no node changes state and nothing is
\* appended to the timeline or to the times; every recorded timestamp is <= tMax.
C11_HorizonStop ==
    [][ /\ exit' = "horizon" /\ exit # "horizon" =>
             /\ clock' > args.tMax
             /\ pc' = "done"
             /\ <<states, timeline, times, ev>>' = <<states, timeline, times, ev>>
        /\ \A i \in 1 .. Len(times') : times'[i] <= args.tMax ]_vars

\* a run with a finite horizon that recorded an event within it and was then
\* stopped by the horizon with an Infected node left
C11_Witness ==
    /\ exit = "horizon"
    /\ args.tMax < Infinity
    /\ Len(times) >= 2
    /\ times[Len(times)] > 0
    /\ clock > args.tMax
    /\ CountI(states) > 0

-----------------------------------------------------------------------------
(* Properties of makeWS, checked under SpecWS *)

\* the number of link ends at node u
Degree(links, u) ==
    Cardinality({ e \in 1 .. Len(links) : links[e].source = u })
    + Cardinality({ e \in 1 .. Len(links) : links[e].target = u })

NoSelfLoop(links) == \A e \in 1 .. Len(links) : links[e].source # links[e].target

\* no two links join the same pair of nodes, in either direction
NoDuplicate(links) ==
    \A e \in 1 .. Len(links) : \A f \in 1 .. Len(links) :
        e # f =>
            /\ ~ (links[e].source = links[f].source /\ links[e].target = links[f].target)
            /\ ~ (links[e].source = links[f].target /\ links[e].target = links[f].source)

\* C13 as stated: with rewireProb = 0 and N >= k + 1, for every k, odd or even,
\* makeWS returns a ring lattice in which every node has degree exactly k, with
\* no self-loop and no duplicate edge.
C13_AsStated ==
    (ws.pc = "done" /\ ws.arg.rewireProb.num = 0 /\ ws.arg.n >= ws.arg.k + 1) =>
        /\ \A u \in Ids(ws.arg.n) : Degree(ws.links, u) = ws.arg.k
        /\ NoSelfLoop(ws.links)
        /\ NoDuplicate(ws.links)

\* C13, amended: with rewireProb = 0 and N >= k' + 1, where k' is k rounded up
\* to even, makeWS returns the ring lattice in which node i is linked to
\* (i + d) % N for d = 1 .. k'/2: every node has degree exactly k', and there
\* is no self-loop and no duplicate edge.
C13_RingLattice ==
    (ws.pc = "done" /\ ws.arg.rewireProb.num = 0
        /\ ws.arg.n >= (ws.arg.k + (ws.arg.k % 2)) + 1) =>
        /\ \A e \in 1 .. Len(ws.links) :
             \E d \in 1 .. ((ws.arg.k + (ws.arg.k % 2)) \div 2) :
                ws.links[e].target = (ws.links[e].source + d) % ws.arg.n
        /\ \A u \in Ids(ws.arg.n) : Degree(ws.links, u) = ws.arg.k + (ws.arg.k % 2)
        /\ NoSelfLoop(ws.links)
        /\ NoDuplicate(ws.links)

\* a lattice returned for an odd k, with N >= k' + 1: every node has degree k + 1
C13_Witness ==
    /\ ws.pc = "done"
    /\ ws.arg.rewireProb.num = 0
    /\ ws.arg.k = 3
    /\ ws.arg.n = 5
    /\ \A u \in Ids(ws.arg.n) : Degree(ws.links, u) = 4

\* C18: makeWS returns exactly N nodes, with ids 0 .. N-1, and exactly N * k'/2
\* links, k' being k rounded up to even, for every rewireProb; the rewiring only
\* replaces the target of a link: the number of links and every source stay
\* those of the lattice.
C18_NodeAndLinkCount ==
    /\ Len(ws.nodes) = ws.arg.n
    /\ \A i \in 1 .. Len(ws.nodes) : ws.nodes[i].id = i - 1
    /\ 2 * Len(ws.links) = ws.arg.n * (ws.arg.k + (ws.arg.k % 2))
    /\ \A e \in 1 .. Len(ws.links) :
         ws.links[e].source = (e - 1) \div ((ws.arg.k + (ws.arg.k % 2)) \div 2)

\* a returned graph in which two links were given new targets
C18_Witness ==
    /\ ws.pc = "done"
    /\ ws.arg.rewireProb.num > 0
    /\ Cardinality({ e \in 1 .. Len(ws.links) :
                       ws.links[e].target # (ws.links[e].source + 1) % ws.arg.n }) >= 2
    /\ 2 * Len(ws.links) = ws.arg.n * ws.arg.k

-----------------------------------------------------------------------------
(* Properties of makeBA, checked under SpecBA *)

\* the links pushed for node v in the growth phase
GrowthLinks(links, v) == { e \in 1 .. Len(links) : links[e].source = v }

\* C14: every node v from max(m + 1, 2) to N - 1, once processed, is the source
\* of exactly min(m, v) links, to distinct targets, none of them v and all of
\* them smaller than v; so the growth phase emits no self-loop and no duplicate.
C14_GrowthTargets ==
    \A v \in Max(ba.arg.m + 1, 2) .. (Min(ba.v, ba.arg.n) - 1) :
        /\ Cardinality(GrowthLinks(ba.links, v)) = Min(ba.arg.m, v)
        /\ \A e \in GrowthLinks(ba.links, v) :
             /\ ba.links[e].target # v
             /\ ba.links[e].target < v
             /\ ba.links[e].target >= 0
             /\ \A f \in GrowthLinks(ba.links, v) :
                  e # f => ba.links[e].target # ba.links[f].target
        /\ \A e \in 1 .. Len(ba.links) : ba.links[e].target = v => ba.links[e].source > v

\* a returned graph with m = 2 in which a node of the growth phase was chosen
\* as a target by a later node
C14_Witness ==
    /\ ba.pc = "done"
    /\ ba.arg.m = 2
    /\ \E e \in 1 .. Len(ba.links) :
         /\ ba.links[e].target >= Max(ba.arg.m + 1, 2)
         /\ ba.links[e].source > ba.links[e].target
         /\ Cardinality(GrowthLinks(ba.links, ba.links[e].source)) = 2

-----------------------------------------------------------------------------
(* Properties of makeClustered, checked under SpecClustered *)

\* the cluster that holds node u
ClusterOf(clusters, u) ==
    CHOOSE ci \in 1 .. Len(clusters) : \E x \in 1 .. Len(clusters[ci]) : clusters[ci][x] = u

\* the links a step appended
Pushed(old, new) == { new[e] : e \in (Len(old) + 1) .. Len(new) }

\* the first id of cluster ci (counted from 1) when every earlier cluster has floor(n / c) ids
FirstId(ci, n, c) == (ci - 1) * (n \div c)

\* C15: makeClustered makes exactly clusterCount clusters, contiguous id ranges
\* that partition 0 .. N-1, each of floor(N / clusterCount) ids except the last,
\* which also holds the remainder; every link pushed in the intra-cluster phase
\* has both ends in one cluster and every link pushed in the inter-cluster
\* phase joins two different clusters.
C15_ClusterPartition ==
    [][ /\ cl'.pc = "done" =>
             /\ Len(cl'.clusters) = cl.arg.c
             /\ \A ci \in 1 .. cl.arg.c :
                  /\ Len(cl'.clusters[ci]) =
                        IF ci < cl.arg.c THEN cl.arg.n \div cl.arg.c
                        ELSE cl.arg.n - FirstId(ci, cl.arg.n, cl.arg.c)
                  /\ \A x \in 1 .. Len(cl'.clusters[ci]) :
                        cl'.clusters[ci][x] = FirstId(ci, cl.arg.n, cl.arg.c) + x - 1
        /\ cl.pc = "makeWS" =>
             \A l \in Pushed(cl.links, cl'.links) :
                 /\ l.source \in Ids(cl.arg.n)
                 /\ l.target \in Ids(cl.arg.n)
                 /\ ClusterOf(cl'.clusters, l.source) = ClusterOf(cl'.clusters, l.target)
        /\ (cl.pc = "clusters" /\ cl.ci >= cl.c) =>
             \A l \in Pushed(cl.links, cl'.links) :
                 ClusterOf(cl'.clusters, l.source) # ClusterOf(cl'.clusters, l.target) ]_vars

\* a returned graph of two clusters, the last one holding the remainder, with a
\* link inside the last cluster and a link between the clusters
C15_Witness ==
    /\ cl.pc = "done"
    /\ cl.arg.c = 2
    /\ cl.arg.n % 2 = 1
    /\ Len(cl.clusters[2]) = Len(cl.clusters[1]) + 1
    /\ \E e \in 1 .. Len(cl.links), f \in 1 .. Len(cl.links) :
         /\ ClusterOf(cl.clusters, cl.links[e].source) = 2
         /\ ClusterOf(cl.clusters, cl.links[e].target) = 2
         /\ ClusterOf(cl.clusters, cl.links[f].source) = 1
         /\ ClusterOf(cl.clusters, cl.links[f].target) = 2

-----------------------------------------------------------------------------
(* Link ids of the three generators *)

\* every link joins two ids of 0 .. n-1
ValidLinks(links, n) ==
    \A e \in 1 .. Len(links) : links[e].source \in Ids(n) /\ links[e].target \in Ids(n)

\* C16: in every Graph returned by makeWS, makeBA or makeClustered, for every
\* N >= 1 and every value of the other arguments, the source and the target of
\* every link are ids of 0 .. N-1, so that building the adjacency lists never
\* indexes outside them.
C16_LinksInRange ==
    /\ (ws.pc = "done" /\ ws.arg.n >= 1) => ValidLinks(ws.links, ws.arg.n)
    /\ (ba.pc = "done" /\ ba.arg.n >= 1) => ValidLinks(ba.links, ba.arg.n)
    /\ (cl.pc = "done" /\ cl.arg.n >= 1) => ValidLinks(cl.links, cl.arg.n)

-----------------------------------------------------------------------------
(* Properties of handleSimulate, checked under SpecHandle *)

\* C17: for every combination of parameters the clamping of handleSimulate lets
\* through, the graph it builds has no self-loop, except possibly at a link
\* whose rewiring used up its 50 retries.
C17_NoSelfLoop ==
    (ui.pc = "makeWS" /\ ws.pc = "done") =>
        \A e \in 1 .. Len(ws.links) :
            ws.links[e].source # ws.links[e].target \/ e \in ws.spent

\* the node seeded in snapshot 0
Seeded(u) == timeline[1][u] = 1

\* the run of the example: 100 nodes, ring lattice of degree 4, one seeded node
Example ==
    /\ ui.pc \in {"simulateSIR", "shown"}
    /\ ui.controls.population = 100
    /\ ui.controls.k = 4
    /\ args.beta = 0
    /\ args.gamma = 1
    /\ args.initialInfected = 1
    /\ Len(timeline) >= 1

\* C20 as stated: in the example run, with the gain argument left out, every
\* snapshot after the initial one has exactly 99 Susceptible nodes and the
\* seeded node is Infected or Recovered in it, never Susceptible again.
C20_AsStated ==
    Example =>
        \A i \in 2 .. Len(timeline) :
            /\ CountS(timeline[i]) = 99
            /\ \A u \in Ids(args.graph.n) : Seeded(u) => timeline[i][u] \in {1, 2}

\* C20, amended: in the example run the 99 other nodes are Susceptible in every
\* snapshot; the seeded node is Infected until its recovery fires and then
\* Susceptible, with resistance 0.25, in every later snapshot; it is never
\* Recovered, so the Susceptible count is 99 or 100.
C20_EndToEnd ==
    Example =>
        /\ \A i \in 1 .. Len(timeline) : \A u \in Ids(args.graph.n) :
             /\ ~ Seeded(u) => timeline[i][u] = 0
             /\ Seeded(u) => timeline[i][u] \in {0, 1}
             /\ (Seeded(u) /\ timeline[i][u] = 0) =>
                    \A j \in i .. Len(timeline) : timeline[j][u] = 0
             /\ CountS(timeline[i]) \in {99, 100}
        /\ \A u \in Ids(args.graph.n) :
             resistance[u] = IF Seeded(u) /\ states[u] = 0 THEN GainDefault ELSE 0

\* the example run, shown: the seeded node recovered in the first step and is
\* Susceptible, all 100 nodes are, and a further step was taken
C20_Witness ==
    /\ Example
    /\ ui.pc = "shown"
    /\ Len(timeline) >= 3
    /\ CountI(timeline[1]) = 1
    /\ CountS(timeline[2]) = 100
    /\ CountS(timeline[3]) = 100

-----------------------------------------------------------------------------
(* Properties of both engines with beta = 0, checked under SpecBetaZero *)

\* C19: with beta = 0 no node goes from Susceptible to Infected between two
\* consecutive snapshots, in either engine, whatever the graph, gamma and the draws.
C19_NoInfectionAtBetaZero ==
    args.beta = 0 =>
        \A i \in 1 .. (Len(timeline) - 1) : \A u \in Ids(args.graph.n) :
            ~ (timeline[i][u] = 0 /\ timeline[i + 1][u] = 1)

\* an event of the event engine recorded while a Susceptible node had an
\* Infected neighbour: the event was a recovery and the node is still Susceptible
C19_Witness ==
    /\ engine = "gillespieSIR"
    /\ args.beta = 0
    /\ Len(timeline) >= 2
    /\ \E u \in Ids(args.graph.n) :
         /\ timeline[1][u] = 0
         /\ InfectedNeighbours(adj, timeline[1], u) > 0
         /\ timeline[2][u] = 0
         /\ InfectedNeighbours(adj, timeline[2], u) > 0

-----------------------------------------------------------------------------
(* Properties of concurrent calls, checked under SpecCalls *)

\* sequence x is an initial part of sequence y
Prefix(x, y) == Len(x) <= Len(y) /\ \A i \in 1 .. Len(x) : x[i] = y[i]

-----------------------------------------------------------------------------
(* Properties of handleSimulate on any controls, checked under SpecControls *)

\* p is a probability: 0 <= p <= 1
IsProb(p) == 0 <= p.num /\ p.num <= p.den

\* C21: whatever the controls hold, every value handleSimulate passes on lies
\* in its valid range: makeWS gets n in [10, 6000], k in [2, 200] and a
\* rewiring probability in [0, 1], simulateSIR gets steps in [1, 3000],
\* initialInfected in [1, n] and rates beta >= 0 and gamma >= 0.
C21_ClampedArguments ==
    /\ ws.pc # "idle" =>
          /\ ws.arg.n \in 10 .. 6000
          /\ ws.arg.k \in 2 .. 200
          /\ IsProb(ws.arg.rewireProb)
    /\ engine = "simulateSIR" =>
          /\ args.steps \in 1 .. 3000
          /\ args.initialInfected \in 1 .. args.graph.n
          /\ args.beta >= 0
          /\ args.gamma >= 0

-----------------------------------------------------------------------------
(* The state machine of a node in simulateSIR, checked under SpecSIR *)

\* the changes of state a node may make between two snapshots
NodeMoves == {<<0, 0>>, <<0, 1>>, <<1, 1>>, <<1, 0>>, <<1, 2>>, <<2, 2>>}

\* how often node u became infected in the snapshots tl, the seeding included
Infections(tl, u) ==
    (IF tl[1][u] = 1 THEN 1 ELSE 0)
    + Cardinality({ i \in 1 .. (Len(tl) - 1) : tl[i][u] # 1 /\ tl[i + 1][u] = 1 })

\* C22: in a step of simulateSIR every node makes one of the moves S->S, S->I,
\* I->I, I->S, I->R, R->R; a node that goes S->I had an infected neighbour in
\* the snapshot before; with gain > 0 a node that goes I->S has a larger
\* resistance than before, still below 1, and no node is infected more than
\* ceil(1 / gain) times.
C22_NodeStateMachine ==
    [][ (engine = "simulateSIR" /\ pc = "loop" /\ t' = t + 1) =>
            \A u \in Ids(args.graph.n) :
                /\ <<states[u], states'[u]>> \in NodeMoves
                /\ (states[u] = 0 /\ states'[u] = 1) =>
                       InfectedNeighbours(adj, states, u) > 0
                /\ (args.gain > 0 /\ states[u] = 1 /\ states'[u] = 0) =>
                       /\ resistance'[u] > resistance[u]
                       /\ resistance'[u] < ONE
                /\ args.gain > 0 =>
                       Infections(timeline', u) * args.gain < ONE + args.gain
      ]_vars

-----------------------------------------------------------------------------
(* The selection pass of gillespieSIR, checked under SpecGillespie *)

\* the rates of the nodes 0 .. v, accumulated, reach the threshold u2 / UDen * Rtot
Reaches(v, u2) ==
    SumRates(0, v + 1, states, adj, args.beta, args.gamma) * UDen
        >= u2 * Rtot(states, adj, args)

\* node w is the lowest id whose accumulated rate reaches the threshold, and its
\* own rate is not 0
LowestReaching(w, u2) ==
    /\ Reaches(w, u2)
    /\ \A v \in 0 .. (w - 1) : ~ Reaches(v, u2)
    /\ Rate(w, states, adj, args.beta, args.gamma) # 0

\* C23: whenever the loop of gillespieSIR gets to its selection pass, for every
\* threshold the draw can give, the node the pass fires is the lowest id whose
\* accumulated rate reaches the threshold, and that node's rate is not 0; and
\* the node changed by a recorded event is such a node for one of the thresholds.
C23_EventSelection ==
    /\ [](  (InLoop /\ ~ IsAbsorbing(Rtot(states, adj, args))) =>
               \A a2 \in Draws :
                   LET u == Select(0, args.graph.n, 0, states, adj, args.beta,
                                   args.gamma, U(a2), Rtot(states, adj, args))
                   IN  u # -1 => LowestReaching(u, U(a2)) )
    /\ [][ (engine = "gillespieSIR" /\ pc = "loop" /\ ev' = ev + 1) =>
              \E a2 \in Draws : \E w \in Ids(args.graph.n) :
                  /\ LowestReaching(w, U(a2))
                  /\ states' = Fire(states, w) ]_vars

\* an event was recorded at a node that comes after a node the pass looked at
\* whose rate was 0
C23_Witness ==
    /\ engine = "gillespieSIR"
    /\ Len(timeline) >= 2
    /\ LET prev == timeline[Len(timeline) - 1] IN
       \E w \in Changed(prev, states) : \E v \in 0 .. (w - 1) :
           /\ Active(v, prev, adj)
           /\ Rate(v, prev, adj, args.beta, args.gamma) = 0

-----------------------------------------------------------------------------
(* The rates of gillespieSIR, checked under SpecGillespie *)

\* the nodes joined to u by a link that are infected
InfectedNodesAt(u) ==
    { v \in Ids(args.graph.n) : states[v] = 1 /\ hasEdge(args.graph.links, u, v) }

\* the links that join u to an infected node
InfectedLinksAt(u) ==
    { e \in 1 .. Len(args.graph.links) :
        \/ args.graph.links[e].source = u /\ states[args.graph.links[e].target] = 1
        \/ args.graph.links[e].target = u /\ states[args.graph.links[e].source] = 1 }

\* the rate of node u when a susceptible node counts `count`
RateWith(u, count) ==
    IF states[u] = 0 THEN args.beta * count
    ELSE IF states[u] = 1 THEN args.gamma
    ELSE 0

\* the sum of RateWith over the nodes u .. n-1, counting nodes or links
RECURSIVE TotalWith(_, _)
TotalWith(u, perLink) ==
    IF u >= args.graph.n THEN 0
    ELSE RateWith(u, IF perLink THEN Cardinality(InfectedLinksAt(u))
                                ELSE Cardinality(InfectedNodesAt(u)))
         + TotalWith(u + 1, perLink)

\* C24 as stated: in every iteration the rate of a susceptible node is beta
\* times the number of its infected neighbour nodes, each node counted once,
\* the rate of an infected node is gamma, that of a recovered node is 0, and
\* Rtot is the sum of these rates.
C24_AsStated ==
    (engine = "gillespieSIR" /\ pc = "loop") =>
        /\ \A u \in Ids(args.graph.n) :
               Rate(u, states, adj, args.beta, args.gamma)
                   = RateWith(u, Cardinality(InfectedNodesAt(u)))
        /\ Rtot(states, adj, args) = TotalWith(0, FALSE)

\* C24, amended: in every iteration the rate of a susceptible node is beta
\* times the number of links that join it to an infected node, a neighbour
\* joined by parallel links counting once for each of them; the rate of an
\* infected node is gamma, that of a recovered node is 0, and Rtot is the sum
\* of these rates over the current states.
C24_RateBookkeeping ==
    (engine = "gillespieSIR" /\ pc = "loop") =>
        /\ \A u \in Ids(args.graph.n) :
               Rate(u, states, adj, args.beta, args.gamma)
                   = RateWith(u, Cardinality(InfectedLinksAt(u)))
        /\ Rtot(states, adj, args) = TotalWith(0, TRUE)

\* after a recorded event the total rate differs from the one of the first
\* iteration, and a susceptible node is joined to an infected one by two links
C24_Witness ==
    /\ engine = "gillespieSIR"
    /\ pc = "loop"
    /\ Len(timeline) >= 2
    /\ Rtot(states, adj, args) # Rtot(timeline[1], adj, args)
    /\ args.beta # 0
    /\ \E u \in Ids(args.graph.n) :
           /\ states[u] = 0
           /\ Cardinality(InfectedLinksAt(u)) > Cardinality(InfectedNodesAt(u))

-----------------------------------------------------------------------------
(* The ways out of the loop of gillespieSIR, checked under SpecGillespie *)

\* C25: a run of gillespieSIR that has ended did so because maxEvents
\* iterations were done, because Rtot <= 0, or because the clock passed tMax;
\* with beta >= 0 and gamma >= 0 the selection pass finds a node to fire for
\* every threshold whenever Rtot > 0, and every iteration that passes the
\* absorbing and horizon checks records exactly one event.
C25_LoopExits ==
    /\ []( (engine = "gillespieSIR" /\ pc = "done") =>
              \/ exit = "maxEvents" /\ ev = args.maxEvents
              \/ exit = "absorbing" /\ Rtot(states, adj, args) <= 0
              \/ exit = "horizon" /\ clock > args.tMax )
    /\ []( (InLoop /\ args.beta >= 0 /\ args.gamma >= 0
                   /\ Rtot(states, adj, args) > 0) =>
              \A a2 \in Draws :
                  Select(0, args.graph.n, 0, states, adj, args.beta, args.gamma,
                         U(a2), Rtot(states, adj, args)) # -1 )
    /\ [][ (InLoop /\ args.beta >= 0 /\ args.gamma >= 0
                   /\ Rtot(states, adj, args) > 0 /\ ~ (clock' > args.tMax)) =>
              /\ Len(timeline') = Len(timeline) + 1
              /\ Len(times') = Len(times) + 1
              /\ ev' = ev + 1
              /\ pc' = "loop" ]_vars

\* a run with rates >= 0 has ended after an event that the selection pass
\* fired at the last node it looks at, having passed over an earlier one
C25_Witness ==
    /\ engine = "gillespieSIR"
    /\ pc = "done"
    /\ exit \in {"maxEvents", "absorbing", "horizon"}
    /\ args.beta >= 0
    /\ args.gamma >= 0
    /\ Len(timeline) >= 2
    /\ LET prev == timeline[Len(timeline) - 1] IN
       \E w \in Changed(prev, states) :
           /\ \A v \in Ids(args.graph.n) : v > w => ~ Active(v, prev, adj)
           /\ \E v \in 0 .. (w - 1) : Active(v, prev, adj)

-----------------------------------------------------------------------------
(* The rewiring loop of makeWS, checked under SpecWSRun *)

\* link e of L joins a and b, in either direction
Joins(L, e, a, b) ==
    \/ L[e].source = a /\ L[e].target = b
    \/ L[e].source = b /\ L[e].target = a

\* C26: for a link chosen for rewiring the candidate is drawn again at most 50
\* times, once for each pass of the while loop; the loop ends, and the link
\* then gets the last candidate as its target; if fewer than 50 re-draws were
\* used, the rewired link is no self-loop and no other link then present
\* joins the same two nodes.
C26_Rewiring ==
    /\ [](ws.pc = "while" => ws.tries <= MaxTries)
    /\ [][ (ws.pc = "while" /\ ws'.pc = "while") => ws'.tries = ws.tries + 1 ]_vars
    /\ (ws.pc = "while") ~> (ws.pc = "scan")
    /\ [][ (ws.pc = "while" /\ ws'.pc = "scan") =>
              /\ ws'.links = [ws.links EXCEPT ![ws.idx].target = ws.j]
              /\ ws.tries < MaxTries =>
                    /\ ws'.links[ws.idx].source # ws'.links[ws.idx].target
                    /\ \A e \in 1 .. Len(ws'.links) :
                           e # ws.idx =>
                               ~ Joins(ws'.links, e, ws'.links[ws.idx].source,
                                       ws'.links[ws.idx].target) ]_vars

\* a link has just been given a new target that is not its source, and no
\* rewiring so far has used up its 50 re-draws
C26_Witness ==
    /\ ws.pc = "scan"
    /\ ws.idx >= 2
    /\ ws.links[ws.idx - 1].target # RingLattice(ws.n, ws.k)[ws.idx - 1].target
    /\ ws.links[ws.idx - 1].target # ws.links[ws.idx - 1].source
    /\ ~ (ws.idx - 1) \in ws.spent
    /\ ws.spent = {}

-----------------------------------------------------------------------------
(* The Graph during a run of either engine, checked under SpecEngines *)

\* C27: no step of simulateSIR or gillespieSIR changes the Graph it was given
\* or the adjacency lists built from it: the nodes keep the ids, states and
\* resistances they came with, the links stay as they are, and the adjacency
\* lists stay those built at the start, while states and resistance evolve.
C27_GraphUntouched ==
    /\ [][ /\ args'.graph = args.graph
           /\ adj' = adj ]_vars
    /\ []( /\ args.graph.nodes = NodesOf(args.graph.n)
           /\ adj = buildAdjacency(args.graph) )

\* a simulateSIR run has ended with a node recovered at full resistance and
\* another state changed, on a graph whose nodes still hold state 0
C27_Witness ==
    /\ engine = "simulateSIR"
    /\ pc = "done"
    /\ Len(timeline) >= 3
    /\ \E u \in Ids(args.graph.n) :
           /\ states[u] = 2
           /\ resistance[u] > 0
           /\ args.graph.nodes[u + 1].state = 0
           /\ args.graph.nodes[u + 1].resistance = 0
    /\ timeline[1] # timeline[2]

-----------------------------------------------------------------------------
(* The number of events of a gillespieSIR run, checked under SpecUncapped *)

\* how far the nodes have moved along S -> I -> R since the first snapshot
RECURSIVE Progress(_, _, _)
Progress(first, st, n) ==
    IF n = 0 THEN 0 ELSE (st[n - 1] - first[n - 1]) + Progress(first, st, n - 1)

\* the nodes of snapshot st in state s
CountIn(st, s) == Cardinality({ u \in DOMAIN st : st[u] = s })

\* C28: in a gillespieSIR run every recorded event moves one node one state
\* along S -> I -> R, so the number of recorded events is the total progress
\* of the nodes and at most 2*N minus the number of initially infected nodes,
\* whatever maxEvents and tMax are; with beta >= 0 and gamma >= 0 every run
\* ends, and a run with maxEvents = Infinity and tMax = Infinity ends at
\* Rtot <= 0.
C28_EventsBounded ==
    /\ []( (engine = "gillespieSIR" /\ pc \in {"loop", "done"}) =>
              /\ Len(timeline) - 1 = Progress(timeline[1], states, args.graph.n)
              /\ Len(timeline) - 1 = ev
              /\ Len(timeline) - 1 <= 2 * args.graph.n - CountIn(timeline[1], 1) )
    /\ []( (engine = "gillespieSIR" /\ pc = "done" /\ args.beta >= 0 /\ args.gamma >= 0
              /\ args.maxEvents = Infinity /\ args.tMax = Infinity) =>
              /\ exit = "absorbing"
              /\ Rtot(states, adj, args) <= 0 )
    /\ (engine = "gillespieSIR" /\ pc = "loop" /\ args.beta >= 0 /\ args.gamma >= 0)
          ~> (pc = "done")

\* a run without cap or horizon on three nodes, one of them infected at the
\* start, has ended at Rtot <= 0 after 2*N - 1 = 5 events
C28_Witness ==
    /\ engine = "gillespieSIR"
    /\ pc = "done"
    /\ exit = "absorbing"
    /\ args.maxEvents = Infinity
    /\ args.tMax = Infinity
    /\ args.beta > 0
    /\ args.gamma > 0
    /\ args.graph.n = MaxN
    /\ CountIn(timeline[1], 1) = 1
    /\ Len(timeline) - 1 = 2 * args.graph.n - 1
    /\ Len(timeline) - 1 > MaxEvents

====
